---- MODULE Spec2Model ----
(***************************************************************************)
(* lua-os-urandom: the buffered session of src/src/urandom.c and the       *)
(* entropy source of src/src/secrandom.h.                                  *)
(*                                                                         *)
(* Spec: one urandom_t object (fd, ref_buf, cap, len, buf) and the methods *)
(* the module registers on it: read, bytes, get8u, get16u, get32u, close.  *)
(* The device behind the descriptor is the environment: read(2) may        *)
(* deliver all the bytes asked for, fewer, none, or fail.                  *)
(*                                                                         *)
(* SpecFill: secrandom() and the backend functions of a POSIX build, a     *)
(* primitive call a step.                                                  *)
(*                                                                         *)
(* SpecDirect: the module in src/src/secrandom.h from line 478, whose      *)
(* bytes and getNu read the device at every call.                          *)
(*                                                                         *)
(* SpecOwn: SpecFill's steps for two sessions, each with its own cached    *)
(* descriptor.  SpecFillFair: SpecFill with the fairness under which a     *)
(* call runs to its return.                                                *)
(*                                                                         *)
(* SpecLife: Spec's methods on a live session and the finalizer, from both *)
(* results of urandom(): the descriptor opened, or the open failed.        *)
(***************************************************************************)
EXTENDS Integers, Sequences, FiniteSets, TLC

(***************************************************************************)
(* Bounds of the model.                                                    *)
(***************************************************************************)
\* largest nbyte passed to read
MaxLen == 8
\* largest count / offset passed to an accessor
MaxArg == 3
\* width of size_t in the model; arguments stay far below 2^SizeBits
SizeBits == 16

(***************************************************************************)
(* Values.                                                                 *)
(***************************************************************************)
\* an absent Lua argument; a present one is the 1-tuple of its value
Nil == <<>>
Arg(v) == <<v>>

\* The device is one of two byte streams at every read; byte i of a read is
\* different at every position and in the two streams (and below 128, so
\* that a 32-bit element stays below 2^31, the range of TLC's integers).
Streams == {0, 1}
DeviceBytes(s, n) == [i \in 1..n |-> 10 * i + s]

\* the transfer sizes read(2) may answer a request of n bytes with: end of
\* stream, one byte short, and all of it
ReadLens(n) == {0, n - 1, n}

\* a byte of lua_newuserdata memory that nothing has written yet: its value
\* is indeterminate, and no byte the device delivers equals it
UNINIT == -1

LUA_NOREF == -2
\* the reference luaL_ref hands out for the buffer userdata
REF_BUF == 1
\* the descriptor open(2) returned in new_lua
OPEN_FD == 3

SIZE_MAX == (2 ^ SizeBits) - 1

\* (size_t)x
ToSize(x) == x % (SIZE_MAX + 1)

Min(a, b) == IF a < b THEN a ELSE b

VARIABLES
    fd,        \* u->fd: OPEN_FD or -1
    ref_buf,   \* u->ref_buf: registry reference that keeps the buffer alive
    cap,       \* u->cap
    len,       \* u->len
    buf,       \* the cap bytes u->buf points to
    ENDIAN,    \* byte order of the host the module was built for
    recent,    \* the bytes the most recent successful read(2) transferred
    last       \* the last call made on the session and what it returned

vars == <<fd, ref_buf, cap, len, buf, ENDIAN, recent, last>>
ustate == <<fd, ref_buf, cap, len, buf>>

\* the state of a secrandom() call (src/src/secrandom.h)
VARIABLES
    fcfg,      \* the build: which backends are compiled in, OpenSSL mandatory
    cache,     \* for each session, the int its fd_urandom points to
    fpc,       \* where the call is: "idle", a backend, "exit", "done"
    fcall,     \* the call: entry function, buf, len, fd_urandom given or 0
    left,      \* the backend's local: bytes still to produce
    cur,       \* the backend's local p, as an offset into buf
    lfd,       \* secrandom_urandom_ex's local fd
    ofds,      \* the descriptors the process holds open on /dev/urandom
    out,       \* for each byte of buf, the backend that wrote it last
    tried,     \* the backends this call has run, with what each returned
    prim,      \* the last primitive called: name, bytes asked, bytes given
    frc,       \* secrandom's rc; the value returned when fpc = "done"
    c_errno    \* errno

fvars == <<fcfg, cache, fpc, fcall, left, cur, lfd, ofds, out, tried, prim,
           frc, c_errno>>

\* the session of the module that reads the device at every call
\* (src/src/secrandom.h from line 478)
VARIABLES
    dpath,     \* the argument urandom() was called with
    ddev,      \* the pathname new_lua opened, "" while there is no session
    dfd,       \* u->fd
    dref,      \* u->ref_buf
    dlen,      \* u->len
    dbuf,      \* the len bytes u->buf points to
    dlast      \* the last call made and what it returned

dvars == <<dpath, ddev, dfd, dref, dlen, dbuf, dlast>>

\* the life of the session object of src/src/urandom.c and of its descriptor
VARIABLES
    alive,     \* the userdata has not been collected
    opened,    \* open(2) in new_lua gave a descriptor
    nclose     \* the close(2) calls made on that descriptor so far

lvars == <<alive, opened, nclose>>

allvars == <<vars, fvars, dvars, lvars>>

(***************************************************************************)
(* Argument checks of lauxhlib.                                            *)
(***************************************************************************)
\* mutant: any number is accepted
lauxh_checkpint_any(arg) == arg # Nil

\* mutant: zero is accepted
lauxh_checkpint_nonneg(arg) == arg # Nil /\ arg[1] >= 0

\* lauxh_checkpint: the argument must be a positive integer
lauxh_checkpint(arg) == arg # Nil /\ arg[1] > 0

\* lauxh_optpint: an absent argument takes the default
lauxh_optpint(arg, def) == IF arg = Nil THEN def ELSE arg[1]

\* lauxh_unref: luaL_unref, then LUA_NOREF
lauxh_unref(ref) == LUA_NOREF

(***************************************************************************)
(* What a call returns to Lua.                                             *)
(***************************************************************************)
\* nres: number of values returned (-1: the call raised a Lua error);
\* type/val: the first value ("string": the bytes, "table": the elements,
\* "integer": <<n>>, "nil"/"none": <<>>); err: the second value;
\* devread: read(2) was called; closed: close(2) was called;
\* rd: the 0-based indices of the buffer bytes the call read.
Ret(op, count, offset, nres, type, val, err, devread, closed) ==
    [op |-> op, count |-> count, offset |-> offset, nres |-> nres,
     type |-> type, val |-> val, err |-> err, devread |-> devread,
     closed |-> closed, rd |-> {}]

\* the same return, for a call that read the buffer bytes at indices s
WithRd(r, s) == [r EXCEPT !.rd = s]

NoErr ==
    [errno |-> "", op |-> "", msg |-> "", nbit |-> 0, count |-> 0,
     offset |-> 0]

\* lua_errno_new(L, errno, op)
lua_errno_new(errno, op) ==
    [errno |-> errno, op |-> op, msg |-> "", nbit |-> 0, count |-> 0,
     offset |-> 0]

\* lua_errno_new_with_message(L, errno, op, errmsg); errmsg is the text
\* snprintf built from msg and the numbers nbit, count, offset
lua_errno_new_with_message(errno, op, msg, nbit, count, offset) ==
    [errno |-> errno, op |-> op, msg |-> msg, nbit |-> nbit, count |-> count,
     offset |-> offset]

\* luaL_argerror raised by lauxh_checkpint / lauxh_optpint
ArgError(op) ==
    [errno |-> "", op |-> op, msg |-> "positive integer expected", nbit |-> 0,
     count |-> 0, offset |-> 0]

(***************************************************************************)
(* new_lua: the session after a successful open.                           *)
(***************************************************************************)
Init ==
    /\ fd = OPEN_FD
    /\ ref_buf = LUA_NOREF
    /\ cap = 0
    /\ len = 0
    /\ buf = <<>>
    /\ ENDIAN \in {"LE", "BE"}
    /\ recent = <<>>
    /\ last = Ret("new", Nil, Nil, 1, "userdata", <<>>, NoErr, FALSE, FALSE)

(***************************************************************************)
(* The typed views: u->i8, u->i16, u->i32 alias the buffer.                *)
(***************************************************************************)
\* the unsigned integer a host of byte order e reads from the bytes bs
RECURSIVE HostInt(_, _)
HostInt(e, bs) ==
    IF bs = <<>> THEN 0
    ELSE IF e = "LE"
         THEN bs[1] + 256 * HostInt(e, Tail(bs))
         ELSE bs[Len(bs)] + 256 * HostInt(e, SubSeq(bs, 1, Len(bs) - 1))

\* mutant: the element index is used as a byte index
Deref_unscaled(byte, j) == HostInt(ENDIAN, SubSeq(buf, j + 1, j + byte))

\* the byte at 0-based index i of the storage; past its end the value is
\* indeterminate
Mem(i) == IF i < Len(buf) THEN buf[i + 1] ELSE UNINIT

\* *p for p = v + j, v a pointer to elements of byte bytes each
Deref(byte, j) == HostInt(ENDIAN, [k \in 1..byte |-> Mem(j * byte + k - 1)])

\* push_ival(v): count elements starting at v + offset
push_ival(byte, count, offset) ==
    [i \in 1..count |-> Deref(byte, offset + (i - 1))]

\* the buffer indices push_ival dereferences
push_ival_rd(byte, count, offset) ==
    {(offset + (i - 1)) * byte + k : i \in 1..count, k \in 0..(byte - 1)}

(***************************************************************************)
(* getu_lua                                                                *)
(***************************************************************************)
\* mutant: the typed accessors do not look at the descriptor
getu_not_open_unchecked == FALSE

\* if (u->fd == -1)
getu_not_open == fd = -1

\* mutant: the element just past the end is accepted
getu_out_of_range_gt(offset, maxcount) == offset > maxcount

\* if (offset >= maxcount)
getu_out_of_range(offset, maxcount) == offset >= maxcount

\* mutant: an over-request is clamped as in bytes
getu_count_clamp(count, maxcount) ==
    IF count = SIZE_MAX \/ count > maxcount THEN maxcount ELSE count

\* if (count == SIZE_MAX) count = maxcount;
getu_count(count, maxcount) == IF count = SIZE_MAX THEN maxcount ELSE count

\* mutant: a request for exactly what is left is refused
getu_insufficient_ge(count, maxcount) == count >= maxcount

\* if (count > maxcount)
getu_insufficient(count, maxcount) == count > maxcount

\* mutant: a trailing partial element counts as an element
getu_maxcount_ceil(byte) == (len + byte - 1) \div byte

\* size_t maxcount = u->len / byte;
getu_maxcount(byte) == len \div byte

getu_ret(op, nbit, carg, oarg) ==
    LET count    == ToSize(lauxh_optpint(carg, -1))
        offset   == ToSize(lauxh_optpint(oarg, 1) - 1)
        byte     == nbit \div 8
        maxcount == getu_maxcount(byte)
    IN IF getu_not_open
       THEN Ret(op, carg, oarg, 2, "nil", <<>>, lua_errno_new("EBADF", op),
                FALSE, FALSE)
       ELSE IF getu_out_of_range(offset, maxcount)
       THEN Ret(op, carg, oarg, 2, "nil", <<>>,
                lua_errno_new_with_message("EINVAL", op, "out of range",
                                           nbit, 0, offset + 1),
                FALSE, FALSE)
       ELSE LET remain == maxcount - offset
                n      == getu_count(count, remain)
            IN IF getu_insufficient(n, remain)
               THEN Ret(op, carg, oarg, 2, "nil", <<>>,
                        lua_errno_new_with_message("EINVAL", op,
                                                   "insufficient data",
                                                   nbit, n, offset + 1),
                        FALSE, FALSE)
               ELSE WithRd(Ret(op, carg, oarg, 1, "table",
                               push_ival(byte, n, offset), NoErr, FALSE,
                               FALSE),
                           push_ival_rd(byte, n, offset))

getu_lua(op, nbit, carg, oarg) ==
    /\ last' = getu_ret(op, nbit, carg, oarg)
    /\ UNCHANGED <<ustate, ENDIAN, recent>>
    /\ UNCHANGED <<fvars, dvars, lvars>>

get32u_lua(carg, oarg) == getu_lua("os.urandom.get32u", 32, carg, oarg)

get16u_lua(carg, oarg) == getu_lua("os.urandom.get16u", 16, carg, oarg)

get8u_lua(carg, oarg) == getu_lua("os.urandom.get8u", 8, carg, oarg)

(***************************************************************************)
(* bytes_lua                                                               *)
(***************************************************************************)
\* mutant: bytes does not look at the descriptor
bytes_not_open_unchecked == FALSE

\* if (u->fd == -1)
bytes_not_open == fd = -1

\* mutant: the 1-based offset is used as it is
bytes_offset_1based(oarg) == ToSize(lauxh_optpint(oarg, 1))

\* (size_t)lauxh_optpint(L, 3, 1) - 1
bytes_offset(oarg) == ToSize(lauxh_optpint(oarg, 1) - 1)

\* mutant: the offset just past the end is accepted
bytes_no_data_gt(offset) == offset > len

\* else if (offset >= u->len)
bytes_no_data(offset) == offset >= len

\* mutant: the request is clamped to what is allocated, not to what is valid
bytes_nbyte_cap(nbyte, maxlen) ==
    IF nbyte > maxlen + (cap - len) THEN maxlen + (cap - len) ELSE nbyte

\* if (nbyte > maxlen) nbyte = maxlen;
bytes_nbyte(nbyte, maxlen) == IF nbyte > maxlen THEN maxlen ELSE nbyte

bytes_ret(carg, oarg) ==
    LET nbyte  == ToSize(lauxh_optpint(carg, len))
        offset == bytes_offset(oarg)
        maxlen == len
    IN IF bytes_not_open
       THEN Ret("os.urandom.bytes", carg, oarg, 2, "nil", <<>>,
                lua_errno_new("EBADF", "os.urandom.bytes"), FALSE, FALSE)
       ELSE IF bytes_no_data(offset)
       THEN Ret("os.urandom.bytes", carg, oarg, 1, "nil", <<>>, NoErr,
                FALSE, FALSE)
       ELSE LET n == bytes_nbyte(nbyte, maxlen - offset)
            IN WithRd(Ret("os.urandom.bytes", carg, oarg, 1, "string",
                          SubSeq(buf, offset + 1, offset + n), NoErr, FALSE,
                          FALSE),
                      offset..(offset + n - 1))

\* mutant: bytes consumes what it returns
bytes_lua_consume(carg, oarg) ==
    /\ last' = bytes_ret(carg, oarg)
    /\ len' = len - Len(bytes_ret(carg, oarg).val)
    /\ UNCHANGED <<fd, ref_buf, cap, buf, ENDIAN, recent>>
    /\ UNCHANGED <<fvars, dvars, lvars>>

bytes_lua(carg, oarg) ==
    /\ last' = bytes_ret(carg, oarg)
    /\ UNCHANGED <<ustate, ENDIAN, recent>>
    /\ UNCHANGED <<fvars, dvars, lvars>>

(***************************************************************************)
(* read(2) on descriptor d for n bytes: the set of its outcomes.           *)
(***************************************************************************)
DeviceRead(d, n) ==
    IF d = -1
    THEN {[n |-> -1, errno |-> "EBADF", data |-> <<>>]}
    ELSE {[n |-> -1, errno |-> e, data |-> <<>>] : e \in {"EINTR", "EIO"}}
         \cup {[n |-> k, errno |-> "", data |-> DeviceBytes(s, k)] :
                 k \in ReadLens(n), s \in Streams}

(***************************************************************************)
(* read_lua                                                                *)
(***************************************************************************)
\* mutant: a failed read empties the session
read_error_resets ==
    /\ len' = 0
    /\ UNCHANGED <<fd, ref_buf, cap, buf, ENDIAN, recent>>

\* if (n < 0): nil and the error are returned, u is not touched
read_error == UNCHANGED <<ustate, ENDIAN, recent>>

\* mutant: the length asked for is recorded, not the length transferred
read_len_nbyte(n, nbyte) == nbyte

\* u->len = (size_t)n
read_len(n, nbyte) == n

\* mutant: the capacity of the first buffer is kept
read_cap_kept(nbyte) == cap

\* u->cap = nbyte (a buffer that is reused has this capacity already)
read_cap(nbyte) == nbyte

read_lua(arg) ==
    /\ UNCHANGED <<fvars, dvars, lvars>>
    /\ IF ~lauxh_checkpint(arg)
       THEN /\ last' = Ret("os.urandom.read", arg, Nil, -1, "none", <<>>,
                           ArgError("os.urandom.read"), FALSE, FALSE)
            /\ UNCHANGED <<ustate, ENDIAN, recent>>
       ELSE LET nbyte == ToSize(arg[1])
                fresh == nbyte # cap
            IN \E r \in DeviceRead(fd, nbyte) :
                 IF r.n < 0
                 THEN /\ last' = Ret("os.urandom.read", arg, Nil, 2, "nil", <<>>,
                                     lua_errno_new(r.errno, "os.urandom.read"),
                                     TRUE, FALSE)
                      /\ read_error
                 ELSE LET mem == IF fresh THEN [i \in 1..nbyte |-> UNINIT]
                                              ELSE buf
                      IN
                        /\ buf' = r.data \o SubSeq(mem, r.n + 1, nbyte)
                        /\ cap' = read_cap(nbyte)
                        /\ ref_buf' = IF fresh THEN REF_BUF ELSE ref_buf
                        /\ len' = read_len(r.n, nbyte)
                        /\ recent' = r.data
                        /\ last' = Ret("os.urandom.read", arg, Nil, 1, "integer",
                                       <<r.n>>, NoErr, TRUE, FALSE)
                        /\ UNCHANGED <<fd, ENDIAN>>

(***************************************************************************)
(* close_lua                                                               *)
(***************************************************************************)
\* mutant: close(2) is called whether or not the descriptor is open
close_lua_always ==
    /\ fd' = -1
    /\ ref_buf' = lauxh_unref(ref_buf)
    /\ last' = Ret("os.urandom.close", Nil, Nil, 0, "none", <<>>, NoErr, FALSE,
                   TRUE)
    /\ nclose' = IF fd # -1 THEN nclose + 1 ELSE nclose
    /\ UNCHANGED <<cap, len, buf, ENDIAN, recent, alive, opened>>
    /\ UNCHANGED <<fvars, dvars>>

\* mutant: close() leaves the descriptor number in u->fd
close_mark_kept(f) == f

\* u->fd = -1;
close_mark(f) == -1

\* close(u->fd) is called when u->fd is not -1
close_lua ==
    /\ fd' = IF fd # -1 THEN close_mark(fd) ELSE fd
    /\ nclose' = IF fd # -1 THEN nclose + 1 ELSE nclose
    /\ ref_buf' = lauxh_unref(ref_buf)
    /\ last' = Ret("os.urandom.close", Nil, Nil, 0, "none", <<>>, NoErr, FALSE, fd # -1)
    /\ UNCHANGED <<cap, len, buf, ENDIAN, recent, alive, opened>>
    /\ UNCHANGED <<fvars, dvars>>

\* __gc: the collector finalizes the userdata, once, when nothing refers to
\* it; the fields keep their values
gc_lua ==
    /\ alive
    /\ alive' = FALSE
    /\ nclose' = IF fd # -1 THEN nclose + 1 ELSE nclose
    /\ last' = Ret("os.urandom.__gc", Nil, Nil, 0, "none", <<>>, NoErr, FALSE,
                   fd # -1)
    /\ UNCHANGED <<fd, ref_buf, cap, len, buf, ENDIAN, recent, opened>>
    /\ UNCHANGED <<fvars, dvars>>

\* new_lua returned the session: open(2) gave OPEN_FD, nothing is closed
Opened == alive = TRUE /\ opened = TRUE /\ nclose = 0

\* new_lua returned nil and the error: open(2) failed, u->fd is -1 and the
\* userdata, which nothing refers to, waits for the collector
OpenFailed ==
    /\ fd = -1
    /\ ref_buf = LUA_NOREF
    /\ cap = 0
    /\ len = 0
    /\ buf = <<>>
    /\ recent = <<>>
    /\ last = Ret("new", Nil, Nil, 2, "nil", <<>>,
                  lua_errno_new("ENOENT", "os.urandom"), FALSE, FALSE)
    /\ alive = TRUE
    /\ opened = FALSE
    /\ nclose = 0

\* the arguments a caller passes to an accessor: absent or 1..MaxArg
Args == {Nil} \cup {Arg(v) : v \in 1..MaxArg}

\* the size a caller passes to read: absent, negative, zero or 1..MaxLen
ReadArgs == {Nil} \cup {Arg(v) : v \in -1..MaxLen}

Next ==
    \/ \E a \in ReadArgs : read_lua(a)
    \/ \E c \in Args, o \in Args : bytes_lua(c, o)
    \/ \E c \in Args, o \in Args : get8u_lua(c, o)
    \/ \E c \in Args, o \in Args : get16u_lua(c, o)
    \/ \E c \in Args, o \in Args : get32u_lua(c, o)
    \/ close_lua

\* the methods are called on a session the caller holds; the collector runs
\* once, on a session that was returned or on one whose open failed
LifeNext ==
    \/ alive /\ opened /\ Next
    \/ gc_lua


(***************************************************************************)
(* src/src/secrandom.h: secrandom() and its backends on a POSIX build.     *)
(*                                                                         *)
(* One call at a time (the header does no locking).  A step is one call of *)
(* a primitive (RAND_bytes, arc4random_buf, getentropy, open, read) with   *)
(* the code around it; the primitives' outcomes are the environment.       *)
(* errno after a failed primitive is what that primitive set: ENOSYS for   *)
(* getentropy, ENOENT for open, EINTR or EBADF for read; RAND_bytes leaves *)
(* errno alone.                                                            *)
(***************************************************************************)
\* largest len passed to secrandom and to the backend functions
MaxFill == 257

SECRANDOM_SUCCESS == 0
SECRANDOM_FAILURE == -1
SECRANDOM_UNSUPPORTED == -2

\* getentropy(2) takes at most 256 bytes a call
GETENTROPY_MAX == 256

INT_MAX == 2147483647

\* the lengths a caller asks for: nothing, one byte, one getentropy chunk,
\* and more than one chunk
FillLens == {0, 1, GETENTROPY_MAX, MaxFill}

\* the functions of the header a caller may call
FillFns == {"secrandom", "ossl", "arc4random", "getentropy", "urandom"}

\* the builds: OpenSSL compiled in or not, arc4random_buf and getentropy
\* present or not, OpenSSL mandatory (FIPS enabled or SECRANDOM_PREFER_OPENSSL)
Builds == [ossl : BOOLEAN, arc4random : BOOLEAN, getentropy : BOOLEAN,
           mandatory : BOOLEAN]

NoPrim == [name |-> "none", req |-> 0, got |-> 0]
Prim(name, req, got) == [name |-> name, req |-> req, got |-> got]

\* sess: the session whose cache fd_urandom points to, 0 when fd_urandom is 0
NoCall ==
    [fn |-> "none", buf |-> "NULL", len |-> 0, cached |-> FALSE, sess |-> 0]

\* before the first call, with sessions ss: no descriptor is cached
FillInitWith(ss) ==
    /\ fcfg \in Builds
    /\ cache = [s \in ss |-> -1]
    /\ fpc = "idle"
    /\ fcall = NoCall
    /\ left = 0
    /\ cur = 0
    /\ lfd = -1
    /\ ofds = {}
    /\ out = <<>>
    /\ tried = <<>>
    /\ prim = NoPrim
    /\ frc = SECRANDOM_SUCCESS
    /\ c_errno = ""

\* one session
FillInit == FillInitWith({1})

\* mutant: no request is an empty one
zero_len_never(n) == FALSE

\* else if (len == 0) return SECRANDOM_SUCCESS;
zero_len(n) == n = 0

\* the transfer sizes read(2) may answer a request of n > 0 bytes with: all
\* of it, or the larger half
FillReadLens(n) == {n, (n + 1) \div 2}

\* the descriptor open(2) returns: the lowest one not in use
NewFd == CHOOSE d \in OPEN_FD..(OPEN_FD + Cardinality(ofds)) : d \notin ofds

\* buf after backend b wrote n bytes at offset c
Written(b, c, n) ==
    [i \in 1..Len(out) |-> IF c < i /\ i <= c + n THEN b ELSE out[i]]

\* mutant: OpenSSL is the last resort also after a mandatory attempt
NextBackend_ossl_again(b) ==
    CASE b = "ossl" -> IF fcfg.mandatory /\ tried = <<>> THEN "arc4random"
                                                         ELSE "exit"
      [] b = "arc4random" -> "getentropy"
      [] b = "getentropy" -> "urandom"
      [] b = "urandom" -> "ossl"

\* mutant: /dev/urandom before getentropy
NextBackend_reordered(b) ==
    CASE b = "ossl" -> IF fcfg.mandatory THEN "arc4random" ELSE "exit"
      [] b = "arc4random" -> "urandom"
      [] b = "urandom" -> "getentropy"
      [] b = "getentropy" -> IF fcfg.mandatory THEN "exit" ELSE "ossl"

\* the backend secrandom() runs after backend b did not succeed
\* (the || chain of the POSIX branch)
NextBackend(b) ==
    CASE b = "ossl" -> IF fcfg.mandatory THEN "arc4random" ELSE "exit"
      [] b = "arc4random" -> "getentropy"
      [] b = "getentropy" -> "urandom"
      [] b = "urandom" -> IF fcfg.mandatory THEN "exit" ELSE "ossl"

\* mutant: a backend goes on where the one before it stopped
backend_start_resume(c) == c

\* unsigned char *p = buf; in every backend: it starts at offset 0
backend_start(c) == 0

\* backend b returns rc, its locals being l and c and errno e: to the caller
\* of a direct call; inside secrandom() success returns, anything else runs
\* the next backend from the start of buf.  tried keeps, for every backend
\* that ran, its result and the offset p - buf it had reached
Return(b, rc, e, l, c) ==
    LET on == fcall.fn = "secrandom" /\ rc # SECRANDOM_SUCCESS
    IN /\ tried' = Append(tried, [b |-> b, rc |-> rc, at |-> c])
       /\ frc' = rc
       /\ c_errno' = e
       /\ fpc' = IF on THEN NextBackend(b) ELSE "done"
       /\ left' = IF on THEN fcall.len ELSE l
       /\ cur' = IF on THEN backend_start(c) ELSE c

(***************************************************************************)
(* A caller calls fn(buf, len[, fd_urandom]).                              *)
(***************************************************************************)
fill_call(fn, b, n, c, s) ==
    /\ UNCHANGED <<vars, dvars, lvars>>
    /\ fpc \in {"idle", "done"}
    /\ fcall' = LET given == c /\ fn \in {"secrandom", "urandom"}
                IN [fn |-> fn, buf |-> b, len |-> n, cached |-> given,
                    sess |-> IF given THEN s ELSE 0]
    /\ fpc' = fn
    /\ left' = n
    /\ cur' = 0
    /\ lfd' = -1
    /\ out' = IF b = "NULL" THEN <<>> ELSE [i \in 1..n |-> "none"]
    /\ tried' = <<>>
    /\ prim' = NoPrim
    /\ frc' = SECRANDOM_SUCCESS
    /\ UNCHANGED <<fcfg, cache, ofds, c_errno>>

(***************************************************************************)
(* secrandom: the checks, then the first backend                           *)
(***************************************************************************)
secrandom ==
    /\ UNCHANGED <<vars, dvars, lvars>>
    /\ fpc = "secrandom"
    /\ IF fcall.buf = "NULL"
       THEN fpc' = "done" /\ frc' = SECRANDOM_FAILURE /\ c_errno' = "EINVAL"
       ELSE IF zero_len(fcall.len)
       THEN fpc' = "done" /\ frc' = SECRANDOM_SUCCESS /\ c_errno' = c_errno
       ELSE /\ fpc' = IF fcfg.mandatory THEN "ossl" ELSE "arc4random"
            /\ UNCHANGED <<frc, c_errno>>
    /\ UNCHANGED <<fcfg, cache, fcall, left, cur, lfd, ofds, out, tried, prim>>

\* if (rc == SECRANDOM_UNSUPPORTED) errno = ENOSYS; else errno = EIO;
secrandom_exit ==
    /\ UNCHANGED <<vars, dvars, lvars>>
    /\ fpc = "exit"
    /\ c_errno' = IF frc = SECRANDOM_UNSUPPORTED THEN "ENOSYS" ELSE "EIO"
    /\ fpc' = "done"
    /\ UNCHANGED <<fcfg, cache, fcall, left, cur, lfd, ofds, out, tried, prim,
                   frc>>

(***************************************************************************)
(* secrandom_ossl: one RAND_bytes call a step                              *)
(***************************************************************************)
\* int chunk = (left > INT_MAX) ? INT_MAX : (int)left;
ossl_chunk(l) == IF l > INT_MAX THEN INT_MAX ELSE l

secrandom_ossl ==
    /\ UNCHANGED <<vars, dvars, lvars>>
    /\ fpc = "ossl"
    /\ IF ~fcfg.ossl
       THEN /\ Return("ossl", SECRANDOM_UNSUPPORTED, c_errno, left, cur)
            /\ UNCHANGED <<out, prim>>
       ELSE IF fcall.buf = "NULL"
       THEN /\ Return("ossl", SECRANDOM_FAILURE, "EINVAL", left, cur)
            /\ UNCHANGED <<out, prim>>
       ELSE IF zero_len(fcall.len)
       THEN /\ Return("ossl", SECRANDOM_SUCCESS, c_errno, left, cur)
            /\ UNCHANGED <<out, prim>>
       ELSE LET chunk == ossl_chunk(left)
            IN \/ /\ prim' = Prim("RAND_bytes", chunk, chunk)
                  /\ out' = Written("ossl", cur, chunk)
                  /\ IF left - chunk > 0
                     THEN /\ left' = left - chunk
                          /\ cur' = cur + chunk
                          /\ UNCHANGED <<fpc, tried, frc, c_errno>>
                     ELSE Return("ossl", SECRANDOM_SUCCESS, c_errno,
                                 left - chunk, cur + chunk)
               \/ /\ prim' = Prim("RAND_bytes", chunk, 0)
                  /\ out' = out
                  /\ Return("ossl", SECRANDOM_FAILURE, c_errno, left, cur)
    /\ UNCHANGED <<fcfg, cache, fcall, lfd, ofds>>

(***************************************************************************)
(* secrandom_arc4random                                                    *)
(***************************************************************************)
secrandom_arc4random ==
    /\ UNCHANGED <<vars, dvars, lvars>>
    /\ fpc = "arc4random"
    /\ IF ~fcfg.arc4random
       THEN /\ Return("arc4random", SECRANDOM_UNSUPPORTED, c_errno, left, cur)
            /\ UNCHANGED <<out, prim>>
       ELSE IF fcall.buf = "NULL"
       THEN /\ Return("arc4random", SECRANDOM_FAILURE, "EINVAL", left, cur)
            /\ UNCHANGED <<out, prim>>
       ELSE IF zero_len(fcall.len)
       THEN /\ Return("arc4random", SECRANDOM_SUCCESS, c_errno, left, cur)
            /\ UNCHANGED <<out, prim>>
       ELSE /\ prim' = Prim("arc4random_buf", fcall.len, fcall.len)
            /\ out' = Written("arc4random", 0, fcall.len)
            /\ Return("arc4random", SECRANDOM_SUCCESS, c_errno, left, cur)
    /\ UNCHANGED <<fcfg, cache, fcall, lfd, ofds>>

(***************************************************************************)
(* secrandom_getentropy: one getentropy call a step                        *)
(***************************************************************************)
\* mutant: the whole remainder in one call
getentropy_chunk_whole(l) == l

\* size_t chunk = left > 256 ? 256 : left;
getentropy_chunk(l) == IF l > GETENTROPY_MAX THEN GETENTROPY_MAX ELSE l

secrandom_getentropy ==
    /\ UNCHANGED <<vars, dvars, lvars>>
    /\ fpc = "getentropy"
    /\ IF ~fcfg.getentropy
       THEN /\ Return("getentropy", SECRANDOM_UNSUPPORTED, c_errno, left, cur)
            /\ UNCHANGED <<out, prim>>
       ELSE IF fcall.buf = "NULL"
       THEN /\ Return("getentropy", SECRANDOM_FAILURE, "EINVAL", left, cur)
            /\ UNCHANGED <<out, prim>>
       ELSE IF zero_len(fcall.len)
       THEN /\ Return("getentropy", SECRANDOM_SUCCESS, c_errno, left, cur)
            /\ UNCHANGED <<out, prim>>
       ELSE LET chunk == getentropy_chunk(left)
            IN \/ /\ prim' = Prim("getentropy", chunk, chunk)
                  /\ out' = Written("getentropy", cur, chunk)
                  /\ IF left - chunk > 0
                     THEN /\ left' = left - chunk
                          /\ cur' = cur + chunk
                          /\ UNCHANGED <<fpc, tried, frc, c_errno>>
                     ELSE Return("getentropy", SECRANDOM_SUCCESS, c_errno,
                                 left - chunk, cur + chunk)
               \/ /\ prim' = Prim("getentropy", chunk, 0)
                  /\ out' = out
                  /\ Return("getentropy", SECRANDOM_FAILURE, "ENOSYS", left, cur)
    /\ UNCHANGED <<fcfg, cache, fcall, lfd, ofds>>

(***************************************************************************)
(* secrandom_urandom_ex: the checks and the descriptor, then one read(2)   *)
(* call a step                                                             *)
(***************************************************************************)
\* mutant: the cached descriptor is never looked at
urandom_use_cached_never == FALSE

\* if (fd_urandom && *fd_urandom >= 0)
urandom_use_cached == fcall.cached /\ cache[fcall.sess] >= 0

secrandom_urandom_ex ==
    /\ UNCHANGED <<vars, dvars, lvars>>
    /\ fpc = "urandom"
    /\ IF fcall.buf = "NULL"
       THEN /\ Return("urandom", SECRANDOM_FAILURE, "EINVAL", left, cur)
            /\ UNCHANGED <<lfd, ofds, prim>>
       ELSE IF zero_len(fcall.len)
       THEN /\ Return("urandom", SECRANDOM_SUCCESS, c_errno, left, cur)
            /\ UNCHANGED <<lfd, ofds, prim>>
       ELSE IF urandom_use_cached
       THEN /\ lfd' = cache[fcall.sess]
            /\ fpc' = "urandom_read"
            /\ UNCHANGED <<ofds, prim, left, cur, tried, frc, c_errno>>
       ELSE \/ /\ lfd' = NewFd
               /\ ofds' = ofds \cup {NewFd}
               /\ prim' = Prim("open", 0, 0)
               /\ fpc' = "urandom_read"
               /\ UNCHANGED <<left, cur, tried, frc, c_errno>>
            \/ /\ lfd' = -1
               /\ prim' = Prim("open", 0, -1)
               /\ Return("urandom", SECRANDOM_FAILURE, "ENOENT", left, cur)
               /\ UNCHANGED ofds
    /\ UNCHANGED <<fcfg, cache, fcall, out>>

\* mutant: the descriptor is closed and stays in the cache
urandom_drop_keep ==
    /\ ofds' = ofds \ {lfd}
    /\ cache' = cache

\* close(fd); if (fd_urandom) *fd_urandom = -1;
urandom_drop ==
    /\ ofds' = ofds \ {lfd}
    /\ cache' = IF fcall.cached THEN [cache EXCEPT ![fcall.sess] = -1]
                                ELSE cache

\* mutant: the descriptor is left open in both modes
urandom_keep_leak ==
    /\ cache' = IF fcall.cached THEN [cache EXCEPT ![fcall.sess] = lfd]
                                ELSE cache
    /\ ofds' = ofds

\* if (fd_urandom) *fd_urandom = fd; else close(fd);
urandom_keep ==
    IF fcall.cached
    THEN /\ cache' = [cache EXCEPT ![fcall.sess] = lfd]
         /\ ofds' = ofds
    ELSE /\ cache' = cache
         /\ ofds' = ofds \ {lfd}

\* mutant: the remaining count stays as it was
read_left_stuck(l, n) == l

\* left -= (size_t)n;
read_left(l, n) == l - n

urandom_read ==
    /\ UNCHANGED <<vars, dvars, lvars>>
    /\ fpc = "urandom_read"
    /\ \/ \E n \in FillReadLens(left) :
            /\ prim' = Prim("read", left, n)
            /\ out' = Written("urandom", cur, n)
            /\ IF read_left(left, n) > 0
               THEN /\ left' = read_left(left, n)
                    /\ cur' = cur + n
                    /\ UNCHANGED <<fpc, tried, frc, c_errno, cache, ofds>>
               ELSE /\ Return("urandom", SECRANDOM_SUCCESS, c_errno,
                              read_left(left, n), cur + n)
                    /\ urandom_keep
       \/ /\ prim' = Prim("read", left, -1)
          /\ c_errno' = "EINTR"
          /\ UNCHANGED <<fpc, tried, frc, left, cur, out, cache, ofds>>
       \/ /\ prim' = Prim("read", left, -1)
          /\ urandom_drop
          /\ Return("urandom", SECRANDOM_FAILURE, "EBADF", left, cur)
          /\ out' = out
       \/ /\ prim' = Prim("read", left, 0)
          /\ urandom_drop
          /\ Return("urandom", SECRANDOM_FAILURE, "EIO", left, cur)
          /\ out' = out
    /\ UNCHANGED <<fcfg, fcall, lfd>>

(***************************************************************************)
(* The session that owns cache[s] is closed: it releases the cached handle *)
(* (the session of the secrandom-backed module; its C source is not in     *)
(* src/, the step follows section "close" of the specification).           *)
(***************************************************************************)
session_close(s) ==
    /\ UNCHANGED <<vars, dvars, lvars>>
    /\ fpc \in {"idle", "done"}
    /\ ofds' = ofds \ {cache[s]}
    /\ cache' = [cache EXCEPT ![s] = -1]
    /\ fpc' = "idle"
    /\ fcall' = NoCall
    /\ left' = 0
    /\ cur' = 0
    /\ lfd' = -1
    /\ out' = <<>>
    /\ tried' = <<>>
    /\ prim' = NoPrim
    /\ frc' = SECRANDOM_SUCCESS
    /\ UNCHANGED <<fcfg, c_errno>>

FillNext ==
    \/ \E fn \in FillFns, b \in {"NULL", "buf"}, n \in FillLens,
          c \in BOOLEAN, s \in DOMAIN cache : fill_call(fn, b, n, c, s)
    \/ \E s \in DOMAIN cache : session_close(s)
    \/ secrandom
    \/ secrandom_exit
    \/ secrandom_ossl
    \/ secrandom_arc4random
    \/ secrandom_getentropy
    \/ secrandom_urandom_ex
    \/ urandom_read

(***************************************************************************)
(* The module that reads the device at every call: src/src/secrandom.h     *)
(* from line 478.  urandom() makes the session; bytes(n) and getNu(n) read *)
(* n bytes or n elements from the descriptor and return them.              *)
(***************************************************************************)
\* width of int in the model
IntBits == 4

\* INT_MAX of an int of IntBits bits
INT_MAX_scaled == (2 ^ (IntBits - 1)) - 1

\* (int)x: the value modulo 2^IntBits that an int holds
ToInt(x) ==
    LET m == x % (2 ^ IntBits)
    IN IF m > INT_MAX_scaled THEN m - 2 ^ IntBits ELSE m

DEFAULT_DEV == "/dev/urandom"

\* the bytes a read of n bytes delivers, from one of the two streams; every
\* byte is below 128
DirectBytes(s, n) == [i \in 1..n |-> 10 * (i % 12) + s]

DirectInit ==
    /\ dpath = Nil
    /\ ddev = ""
    /\ dfd = -1
    /\ dref = LUA_NOREF
    /\ dlen = 0
    /\ dbuf = <<>>
    /\ dlast = Ret("none", Nil, Nil, 0, "none", <<>>, NoErr, FALSE, FALSE)

\* open("/dev/urandom", O_RDONLY | O_CLOEXEC): no argument is looked at
new_dev(pathname) == DEFAULT_DEV

direct_new_lua(pathname) ==
    /\ UNCHANGED <<vars, fvars, lvars>>
    /\ dpath' = pathname
    /\ dref' = LUA_NOREF
    /\ dlen' = 0
    /\ dbuf' = <<>>
    /\ \/ /\ dfd' = OPEN_FD
          /\ ddev' = new_dev(pathname)
          /\ dlast' = Ret("os.urandom", pathname, Nil, 1, "userdata", <<>>,
                          NoErr, FALSE, FALSE)
       \/ /\ dfd' = -1
          /\ ddev' = ""
          /\ dlast' = Ret("os.urandom", pathname, Nil, 2, "nil", <<>>,
                          lua_errno_new("ENOENT", "os.urandom"), FALSE, FALSE)

\* read_urandom(L, u, nbyte, op): the outcomes.  rc = 0: all nbyte bytes are
\* in the buffer.  rc = 2: a read(2) returned 0 (errno EIO) or an error
\* (EINTR as any other) after k bytes; a buffer that was being reused keeps
\* the k bytes.
read_urandom(nbyte) ==
    IF dfd = -1
    THEN {[rc |-> 2, errno |-> "EBADF", buf |-> dbuf, len |-> dlen,
           devread |-> FALSE]}
    ELSE LET fresh == nbyte # dlen
             old == IF fresh THEN [i \in 1..nbyte |-> UNINIT] ELSE dbuf
         IN {[rc |-> 0, errno |-> "", buf |-> DirectBytes(s, nbyte),
              len |-> nbyte, devread |-> TRUE] : s \in Streams}
            \cup
            {[rc |-> 2, errno |-> e,
              buf |-> IF fresh THEN dbuf
                      ELSE SubSeq(DirectBytes(s, nbyte), 1, k)
                           \o SubSeq(old, k + 1, nbyte),
              len |-> dlen, devread |-> TRUE] :
                s \in Streams, k \in {0, nbyte - 1}, e \in {"EIO", "EINTR"}}

\* the session after read_urandom returned r
direct_commit(r) ==
    /\ dbuf' = r.buf
    /\ dlen' = r.len
    /\ dref' = IF r.rc = 0 /\ r.len # dlen THEN REF_BUF ELSE dref
    /\ UNCHANGED <<dpath, ddev, dfd>>

\* lua_createtable(L, count, 0) takes an int: a count above INT_MAX arrives
\* as a negative number, and the call either raises (table overflow, block
\* too big) or makes an empty table that the pushes then grow
createtable_raises(count) ==
    IF ToInt(count) = count THEN {FALSE} ELSE {FALSE, TRUE}

\* what a read of *p gives when p points past the end of the buffer: the
\* behaviour is undefined, the value is whatever lies there
OUT_OF_BUFFER == -2

\* count * (nbit / 8), a size_t product
getu_nbyte(count, byte) == ToSize(count * byte)

\* *p for element i (from 1) of width byte of buffer b
direct_elem(b, byte, i) ==
    IF i * byte <= Len(b)
    THEN HostInt(ENDIAN, SubSeq(b, (i - 1) * byte + 1, i * byte))
    ELSE OUT_OF_BUFFER

\* how the loop over count elements of buffer b ends: with the table, or,
\* when it leaves the buffer, with the table or with the process killed
direct_push_ival(op, carg, b, byte, count) ==
    {Ret(op, carg, Nil, 1, "table",
         [i \in 1..count |-> direct_elem(b, byte, i)], NoErr, TRUE, FALSE)}
    \cup
    (IF count * byte <= Len(b)
     THEN {}
     ELSE {Ret(op, carg, Nil, -1, "signal", <<>>,
               [NoErr EXCEPT !.msg = "SIGSEGV"], TRUE, FALSE)})

direct_getu_lua(op, nbit, carg) ==
    /\ UNCHANGED <<vars, fvars, lvars>>
    /\ ddev # ""
    /\ IF ~lauxh_checkpint(carg)
       THEN /\ dlast' = Ret(op, carg, Nil, -1, "none", <<>>, ArgError(op),
                            FALSE, FALSE)
            /\ UNCHANGED <<dpath, ddev, dfd, dref, dlen, dbuf>>
       ELSE LET count == ToSize(carg[1])
                byte == nbit \div 8
            IN \E r \in read_urandom(getu_nbyte(count, byte)) :
                 /\ direct_commit(r)
                 /\ IF r.rc # 0
                    THEN dlast' = Ret(op, carg, Nil, 2, "nil", <<>>,
                                      lua_errno_new(r.errno, op), r.devread,
                                      FALSE)
                    ELSE \E raised \in createtable_raises(count) :
                           IF raised
                           THEN dlast' =
                                  Ret(op, carg, Nil, -1, "none", <<>>,
                                      [NoErr EXCEPT !.msg = "table overflow"],
                                      TRUE, FALSE)
                           ELSE dlast' \in
                                  direct_push_ival(op, carg, r.buf, byte,
                                                   count)

direct_bytes_lua(carg) ==
    /\ UNCHANGED <<vars, fvars, lvars>>
    /\ ddev # ""
    /\ IF ~lauxh_checkpint(carg)
       THEN /\ dlast' = Ret("os.urandom.bytes", carg, Nil, -1, "none", <<>>,
                            ArgError("os.urandom.bytes"), FALSE, FALSE)
            /\ UNCHANGED <<dpath, ddev, dfd, dref, dlen, dbuf>>
       ELSE \E r \in read_urandom(ToSize(carg[1])) :
              /\ direct_commit(r)
              /\ dlast' =
                   IF r.rc # 0
                   THEN Ret("os.urandom.bytes", carg, Nil, 2, "nil", <<>>,
                            lua_errno_new(r.errno, "os.urandom.bytes"),
                            r.devread, FALSE)
                   ELSE Ret("os.urandom.bytes", carg, Nil, 1, "string", r.buf,
                            NoErr, TRUE, FALSE)

direct_close_lua ==
    /\ UNCHANGED <<vars, fvars, lvars>>
    /\ ddev # ""
    /\ dfd' = -1
    /\ dref' = lauxh_unref(dref)
    /\ dlast' = Ret("os.urandom.close", Nil, Nil, 0, "none", <<>>, NoErr,
                    FALSE, dfd # -1)
    /\ UNCHANGED <<dpath, ddev, dlen, dbuf>>

\* the element counts a caller asks for: none, small ones, and INT_MAX + 1
DirectArgs == {Nil} \cup {Arg(v) : v \in {1, 2, INT_MAX_scaled + 1}}

\* a count whose product with 4 does not fit size_t (with 2 and 1 there is
\* none: the count is a lua_Integer, one bit narrower than size_t)
WrapCount == (SIZE_MAX + 1) \div 4 + 1

\* the pathnames a caller passes to urandom()
Pathnames == {Nil, Arg("/dev/random")}

DirectNext ==
    \/ \E pn \in Pathnames : direct_new_lua(pn)
    \/ \E c \in DirectArgs : direct_bytes_lua(c)
    \/ \E c \in DirectArgs : direct_getu_lua("os.urandom.get8u", 8, c)
    \/ \E c \in DirectArgs : direct_getu_lua("os.urandom.get16u", 16, c)
    \/ \E c \in DirectArgs \cup {Arg(WrapCount)} :
          direct_getu_lua("os.urandom.get32u", 32, c)
    \/ direct_close_lua

\* this module alone: no call has been made on anything
DirectStart ==
    /\ Init
    /\ ENDIAN = "LE"
    /\ FillInit
    /\ fcfg = [ossl |-> FALSE, arc4random |-> FALSE, getentropy |-> FALSE,
               mandatory |-> FALSE]
    /\ DirectInit
    /\ Opened

SpecDirect == DirectStart /\ [][DirectNext]_allvars

\* the header alone: the session stays as new_lua left it
FillStart == Init /\ ENDIAN = "LE" /\ FillInit /\ DirectInit /\ Opened

SpecFill == FillStart /\ [][FillNext]_allvars

\* a step of the function that was called: the thread keeps running
FillStep ==
    \/ secrandom
    \/ secrandom_exit
    \/ secrandom_ossl
    \/ secrandom_arc4random
    \/ secrandom_getentropy
    \/ secrandom_urandom_ex

\* read(2) answers with something else than EINTR
urandom_answer ==
    /\ urandom_read
    /\ prim'.got >= 0 \/ fpc' # "urandom_read"

\* the called function runs on, and the device does not answer EINTR for ever
SpecFillFair ==
    /\ SpecFill
    /\ WF_allvars(FillStep)
    /\ WF_allvars(urandom_answer)

\* two sessions, each with its own cache, calling the same functions, in the
\* builds whose secrandom() reaches /dev/urandom (no arc4random_buf, no
\* getentropy)
OwnStart ==
    /\ Init
    /\ ENDIAN = "LE"
    /\ FillInitWith({1, 2})
    /\ ~fcfg.arc4random
    /\ ~fcfg.getentropy
    /\ DirectInit
    /\ Opened

SpecOwn == OwnStart /\ [][FillNext]_allvars

\* the session alone: no secrandom() call is made
SessionStart ==
    /\ Init
    /\ FillInit
    /\ fcfg = [ossl |-> FALSE, arc4random |-> FALSE, getentropy |-> FALSE,
               mandatory |-> FALSE]
    /\ DirectInit
    /\ Opened

Spec == SessionStart /\ [][Next]_allvars

\* urandom() was called: the session, or nil when open(2) failed
LifeStart ==
    /\ ENDIAN = "LE"
    /\ (Init /\ Opened) \/ OpenFailed
    /\ FillInit
    /\ fcfg = [ossl |-> FALSE, arc4random |-> FALSE, getentropy |-> FALSE,
               mandatory |-> FALSE]
    /\ DirectInit

SpecLife == LifeStart /\ [][LifeNext]_allvars

(***************************************************************************)
(* Vocabulary of the properties.                                           *)
(***************************************************************************)
GetuOps == {"os.urandom.get8u", "os.urandom.get16u", "os.urandom.get32u"}
AccessorOps == GetuOps \cup {"os.urandom.bytes"}

\* element width in bytes of a typed accessor
Width(op) ==
    CASE op = "os.urandom.get8u" -> 1
      [] op = "os.urandom.get16u" -> 2
      [] op = "os.urandom.get32u" -> 4

\* the 0-based offset of the last call (offset argument k, default 1, minus 1)
Off0 == (IF last.offset = Nil THEN 1 ELSE last.offset[1]) - 1

\* the number of whole elements of the last typed call's width in the buffer
MaxElems == len \div Width(last.op)

\* the w bytes a host of byte order e stores the unsigned integer v in
HostBytes(e, v, w) ==
    [k \in 1..w |-> IF e = "LE" THEN (v \div (256 ^ (k - 1))) % 256
                                ELSE (v \div (256 ^ (w - k))) % 256]

\* the bytes of the elements es, each of width w, one after the other
RECURSIVE Concat(_, _, _)
Concat(e, es, w) ==
    IF es = <<>> THEN <<>>
    ELSE HostBytes(e, es[1], w) \o Concat(e, Tail(es), w)

(***************************************************************************)
(* C1: a successful read(n), n > 0, returns n and leaves len = n, whatever *)
(* the device does.  The code makes one read(2) call and reports whatever  *)
(* it transferred, so a short transfer breaks this statement.              *)
(***************************************************************************)
C1_ReadReturnsRequested ==
    (last.op = "os.urandom.read" /\ last.nres = 1)
        => (last.val = <<last.count[1]>> /\ len = last.count[1])

(***************************************************************************)
(* C2: on an open session, bytes(count, offset) with offset-1 < len        *)
(* returns exactly min(count, len-(offset-1)) bytes, the buffer bytes      *)
(* starting at offset-1; an absent count means all that remain; an         *)
(* over-request is clamped and is no error.                                *)
(***************************************************************************)
C2_BytesClamped ==
    (last.op = "os.urandom.bytes" /\ fd # -1 /\ Off0 < len)
        => LET avail == len - Off0
               n     == IF last.count = Nil THEN avail
                        ELSE Min(last.count[1], avail)
           IN /\ last.nres = 1
              /\ last.type = "string"
              /\ last.err = NoErr
              /\ Len(last.val) = n
              /\ last.val = [i \in 1..n |-> buf[Off0 + i]]

C2_Witness ==
    /\ last.op = "os.urandom.bytes"
    /\ fd # -1
    /\ Off0 > 0
    /\ Off0 < len
    /\ last.count # Nil
    /\ last.count[1] > len - Off0
    /\ last.type = "string"
    /\ Len(last.val) = len - Off0

(***************************************************************************)
(* C3: on an open session, bytes(count, offset) with offset-1 >= len       *)
(* returns nil and no error value, for every count, also before the first  *)
(* successful read.                                                        *)
(***************************************************************************)
C3_BytesNoData ==
    (last.op = "os.urandom.bytes" /\ fd # -1 /\ Off0 >= len)
        => /\ last.nres = 1
           /\ last.type = "nil"
           /\ last.val = <<>>
           /\ last.err = NoErr

C3_Witness ==
    /\ last.op = "os.urandom.bytes"
    /\ fd # -1
    /\ len > 0
    /\ Off0 = len
    /\ last.count # Nil
    /\ last.type = "nil"
    /\ last.nres = 1

(***************************************************************************)
(* C4: on an open session, a typed accessor of width w called with count   *)
(* and offset such that (offset-1) + count <= len div w succeeds and       *)
(* returns exactly count elements; with the count absent and offset-1      *)
(* inside the len div w elements it returns the (len div w) - (offset-1)   *)
(* that remain.                                                            *)
(***************************************************************************)
C4_TypedCount ==
    (last.op \in GetuOps /\ fd # -1 /\ Off0 < MaxElems)
        => /\ (last.count # Nil /\ Off0 + last.count[1] <= MaxElems)
                => /\ last.nres = 1
                   /\ last.type = "table"
                   /\ Len(last.val) = last.count[1]
           /\ last.count = Nil
                => /\ last.nres = 1
                   /\ last.type = "table"
                   /\ Len(last.val) = MaxElems - Off0

C4_Witness ==
    /\ last.op = "os.urandom.get32u"
    /\ fd # -1
    /\ last.count = Arg(1)
    /\ last.offset = Arg(2)
    /\ MaxElems = 2
    /\ last.type = "table"
    /\ Len(last.val) = 1

(***************************************************************************)
(* C5: element i of a successful typed call of width w is the host-order   *)
(* unsigned integer in buffer bytes [(offset-1+i-1)*w, (offset-1+i)*w);    *)
(* the w-byte encodings of the elements, one after the other, are buffer   *)
(* bytes [(offset-1)*w, (offset-1+count)*w); get8u() is bytes() byte for   *)
(* byte.                                                                   *)
(***************************************************************************)
C5_TypedRoundTrip ==
    (last.op \in GetuOps /\ last.type = "table")
        => LET w == Width(last.op)
               n == Len(last.val)
           IN /\ \A i \in 1..n :
                    HostBytes(ENDIAN, last.val[i], w)
                        = [k \in 1..w |-> buf[(Off0 + i - 1) * w + k]]
              /\ Concat(ENDIAN, last.val, w)
                    = [k \in 1..(n * w) |-> buf[Off0 * w + k]]
              /\ (last.op = "os.urandom.get8u" /\ last.count = Nil
                    /\ last.offset = Nil)
                    => last.val = [k \in 1..len |-> buf[k]]

C5_Witness ==
    /\ last.op = "os.urandom.get32u"
    /\ last.type = "table"
    /\ ENDIAN = "BE"
    /\ Off0 = 1
    /\ Len(last.val) = 1
    /\ last.val[1] = ((buf[5] * 256 + buf[6]) * 256 + buf[7]) * 256 + buf[8]

(***************************************************************************)
(* C6: on an open session, a typed accessor of width w called with offset  *)
(* k, k-1 >= len div w, fails with the out-of-range error (nil and an      *)
(* error naming w*8 and k), whatever the count; the check comes before the *)
(* insufficient-data check.                                                *)
(***************************************************************************)
C6_TypedOutOfRange ==
    (last.op \in GetuOps /\ fd # -1 /\ Off0 >= MaxElems)
        => /\ last.nres = 2
           /\ last.type = "nil"
           /\ last.val = <<>>
           /\ last.err = [errno |-> "EINVAL", op |-> last.op,
                          msg |-> "out of range",
                          nbit |-> Width(last.op) * 8, count |-> 0,
                          offset |-> Off0 + 1]

C6_Witness ==
    /\ last.op = "os.urandom.get16u"
    /\ fd # -1
    /\ MaxElems = 1
    /\ last.offset = Arg(2)
    /\ last.count = Arg(3)
    /\ last.err.msg = "out of range"

(***************************************************************************)
(* C7: on an open session, a typed accessor of width w called with count c *)
(* and offset k, k-1 < len div w and c > (len div w) - (k-1), fails with   *)
(* the insufficient-data error (nil and an error naming c, w*8 and k); it  *)
(* never returns a shorter array.                                          *)
(***************************************************************************)
C7_TypedInsufficient ==
    (last.op \in GetuOps /\ fd # -1 /\ last.count # Nil
       /\ Off0 < MaxElems /\ last.count[1] > MaxElems - Off0)
        => /\ last.nres = 2
           /\ last.type = "nil"
           /\ last.val = <<>>
           /\ last.err = [errno |-> "EINVAL", op |-> last.op,
                          msg |-> "insufficient data",
                          nbit |-> Width(last.op) * 8,
                          count |-> last.count[1], offset |-> Off0 + 1]

C7_Witness ==
    /\ last.op = "os.urandom.get32u"
    /\ fd # -1
    /\ MaxElems = 2
    /\ last.offset = Arg(2)
    /\ last.count = Arg(2)
    /\ last.err.msg = "insufficient data"

(***************************************************************************)
(* C8: an accessor call, successful or not, leaves fd, len, cap, the       *)
(* buffer and its reference as they were and calls no read(2); an accessor *)
(* called again with the same arguments right after itself returns the     *)
(* same result.                                                            *)
(***************************************************************************)
C8_AccessorsPure ==
    [][last'.op \in AccessorOps
         => /\ UNCHANGED ustate
            /\ ~last'.devread
            /\ (last.op = last'.op /\ last.count = last'.count
                  /\ last.offset = last'.offset) => last' = last]_vars

C8_Witness ==
    /\ last.op \in AccessorOps
    /\ fd # -1
    /\ len > 0
    /\ len < cap
    /\ ref_buf = REF_BUF
    /\ last.nres = 2
    /\ ~last.devread

(***************************************************************************)
(* C9: once the session is closed it stays closed, and every call of read, *)
(* bytes, get8u, get16u, get32u with valid arguments made from then on     *)
(* returns nil and the EBADF error, whatever had been read before.         *)
(***************************************************************************)
C9_ClosedFailsEBADF ==
    [][fd = -1
         => /\ fd' = -1
            /\ (last'.op \in AccessorOps \cup {"os.urandom.read"}
                  /\ last'.nres # -1)
                 => /\ last'.nres = 2
                    /\ last'.type = "nil"
                    /\ last'.val = <<>>
                    /\ last'.err = lua_errno_new("EBADF", last'.op)
                    /\ UNCHANGED <<cap, len, buf>>]_vars

C9_Witness ==
    /\ fd = -1
    /\ len > 0
    /\ last.op = "os.urandom.bytes"
    /\ last.err.errno = "EBADF"

(***************************************************************************)
(* C10: a close() on a closed session succeeds, calls no close(2) and      *)
(* leaves the session as the first close() left it.                        *)
(***************************************************************************)
C10_CloseIdempotent ==
    [][(fd = -1 /\ last'.op = "os.urandom.close")
         => /\ UNCHANGED ustate
            /\ last'.nres = 0
            /\ last'.err = NoErr
            /\ ~last'.closed]_vars

C10_Witness ==
    /\ last.op = "os.urandom.close"
    /\ ~last.closed
    /\ fd = -1
    /\ ref_buf = LUA_NOREF
    /\ cap > 0
(***************************************************************************)
(* C11: a read(n) that fails (returns nil and an error) leaves len, cap    *)
(* and the buffer bytes exactly as they were, when n = cap (the buffer     *)
(* would have been reused) and when n # cap (a new buffer was allocated).  *)
(***************************************************************************)
C11_ReadAllOrNothing ==
    [][(last'.op = "os.urandom.read" /\ last'.nres = 2)
         => /\ last'.type = "nil"
            /\ UNCHANGED <<cap, len, buf, ref_buf, recent>>]_vars

C11_Witness ==
    /\ last.op = "os.urandom.read"
    /\ last.nres = 2
    /\ last.err.errno = "EIO"
    /\ last.count = Arg(cap)
    /\ len > 0
    /\ len < cap

(***************************************************************************)
(* C12: after any sequence of reads the valid region [0, len) holds        *)
(* exactly the bytes the most recent successful read transferred; no byte  *)
(* of an earlier read is inside it.                                        *)
(***************************************************************************)
C12_ValidFromLastRead ==
    /\ Len(recent) = len
    /\ \A i \in 1..len : buf[i] = recent[i]

C12_Witness ==
    /\ last.op = "os.urandom.read"
    /\ last.nres = 1
    /\ len > 0
    /\ len < cap
    /\ buf[cap] # UNINIT
    /\ buf[cap] % 10 # recent[1] % 10

(***************************************************************************)
(* C13: no accessor reads a buffer byte at an index >= len, and what it    *)
(* returns is made of the bytes it read; also when a read left len < cap   *)
(* with bytes of an earlier read in [len, cap).                            *)
(***************************************************************************)
C13_NoExposureBeyondLen ==
    last.op \in AccessorOps
        => /\ \A i \in last.rd : 0 <= i /\ i < len
           /\ last.type = "string" => Len(last.val) = Cardinality(last.rd)
           /\ last.type = "table"
                => Len(last.val) * Width(last.op) = Cardinality(last.rd)
           /\ last.type \notin {"string", "table"}
                => last.rd = {} /\ last.val = <<>>

C13_Witness ==
    /\ last.op = "os.urandom.bytes"
    /\ last.type = "string"
    /\ len > 0
    /\ len < cap
    /\ buf[len + 1] # UNINIT
    /\ last.count # Nil
    /\ last.count[1] > len
    /\ (len - 1) \in last.rd

C15_ZeroReadPermitted ==
    (last.op = "os.urandom.read" /\ last.count = Arg(0))
        => (last.nres = 1 /\ len = 0)

(***************************************************************************)
(* C15, amended: read with a requested length of zero is refused with the  *)
(* "positive integer expected" argument error and leaves len and cap as    *)
(* they were.                                                              *)
(***************************************************************************)
C15_ZeroReadRejected ==
    [][(last'.op = "os.urandom.read" /\ last'.count = Arg(0))
         => /\ last'.nres = -1
            /\ last'.err.msg = "positive integer expected"
            /\ len' = len
            /\ cap' = cap]_vars

C15_Witness ==
    /\ last.op = "os.urandom.read"
    /\ last.count = Arg(0)
    /\ last.nres = -1
    /\ len > 0

(***************************************************************************)
(* Vocabulary of the properties of secrandom.h                             *)
(***************************************************************************)

\* the order secrandom() runs the backends in on this build
ChainOrder ==
    IF fcfg.mandatory
    THEN <<"ossl", "arc4random", "getentropy", "urandom">>
    ELSE <<"arc4random", "getentropy", "urandom", "ossl">>

\* backend b exists on this build (/dev/urandom always does on POSIX)
Available(b) == b = "urandom" \/ fcfg[b]

\* the backend that is running, "" if none is
Running ==
    CASE fpc = "urandom_read" -> "urandom"
      [] fpc \in {"ossl", "arc4random", "getentropy", "urandom"} -> fpc
      [] OTHER -> ""

\* the most a backend's primitive takes in one call, given what is missing
Limit(b, missing) ==
    CASE b = "getentropy" -> GETENTROPY_MAX
      [] b = "ossl" -> INT_MAX
      [] OTHER -> missing

\* this step is the backend returning rc
Returns(rc) ==
    /\ Len(tried') = Len(tried) + 1
    /\ tried'[Len(tried')].b = Running
    /\ tried'[Len(tried')].rc = rc

(***************************************************************************)
(* C16: in secrandom() on POSIX the backends run in the order OpenSSL when *)
(* it is mandatory, arc4random, getentropy, /dev/urandom (then OpenSSL     *)
(* when it is not mandatory); a backend runs only if every earlier one did *)
(* not return success, and the first success ends the call.                *)
(***************************************************************************)
C16_BackendOrder ==
    fcall.fn = "secrandom" =>
        /\ Len(tried) <= Len(ChainOrder)
        /\ \A i \in 1..Len(tried) : tried[i].b = ChainOrder[i]
        /\ \A i \in 1..(Len(tried) - 1) : tried[i].rc # SECRANDOM_SUCCESS
        /\ Running # "" => Len(tried) < Len(ChainOrder)
                           /\ Running = ChainOrder[Len(tried) + 1]
        /\ \A i \in 1..Len(tried) :
             tried[i].rc = SECRANDOM_SUCCESS =>
                 /\ fpc = "done"
                 /\ frc = SECRANDOM_SUCCESS
                 /\ \A k \in 1..Len(out) : out[k] = tried[i].b

\* OpenSSL is mandatory and fails, arc4random is missing, getentropy fails,
\* and /dev/urandom fills the buffer
C16_Witness ==
    /\ fcall.fn = "secrandom"
    /\ fcfg.mandatory
    /\ fpc = "done"
    /\ [i \in 1..Len(tried) |-> [b |-> tried[i].b, rc |-> tried[i].rc]]
         = << [b |-> "ossl", rc |-> SECRANDOM_FAILURE],
              [b |-> "arc4random", rc |-> SECRANDOM_UNSUPPORTED],
              [b |-> "getentropy", rc |-> SECRANDOM_FAILURE],
              [b |-> "urandom", rc |-> SECRANDOM_SUCCESS] >>

(***************************************************************************)
(* C17: secrandom() returns Unsupported (errno ENOSYS) only when no        *)
(* backend is available; whenever an available backend ran and failed the  *)
(* result is Failure (errno EIO).                                          *)
(* Not so: the value returned is the one of the backend that ran last, and *)
(* on a build without OpenSSL that is the secrandom_ossl stub.             *)
(***************************************************************************)
C17_FailureAfterFailedBackend ==
    (/\ fcall.fn = "secrandom"
     /\ fpc = "done"
     /\ \E i \in 1..Len(tried) :
          Available(tried[i].b) /\ tried[i].rc = SECRANDOM_FAILURE
     /\ frc # SECRANDOM_SUCCESS)
    => frc = SECRANDOM_FAILURE /\ c_errno = "EIO"

\* a call with len = 0 has been made and its function has not run yet
ZeroLenCall == fpc = fcall.fn /\ fcall.len = 0

\* the step calls no primitive, opens no descriptor, leaves the cached handle
\* alone, and ends the call
Untouched ==
    /\ fpc' = "done"
    /\ prim' = NoPrim
    /\ ofds' = ofds
    /\ cache' = cache
    /\ out' = out

(***************************************************************************)
(* C18: a fill request of length zero (secrandom and each backend          *)
(* function) always returns success, invokes no primitive, opens no        *)
(* descriptor and leaves the cached handle unchanged.                      *)
(* Not always success: the null-buffer check comes first, and the stub of  *)
(* a backend that is not compiled in looks at neither argument.            *)
(***************************************************************************)
C18_ZeroLenAlwaysSucceeds ==
    [][ZeroLenCall => Untouched /\ frc' = SECRANDOM_SUCCESS]_allvars

(***************************************************************************)
(* C18, amended: a fill request of length zero with a non-null buffer, to  *)
(* secrandom or to a backend function that is available, returns success;  *)
(* with a null buffer it returns Failure with errno EINVAL; the stub of a  *)
(* backend that is not available returns Unsupported.  In every case no    *)
(* primitive is invoked, no descriptor is opened and the cached handle is  *)
(* unchanged.                                                              *)
(***************************************************************************)
C18_ZeroLenNonNull ==
    [][ZeroLenCall =>
         /\ Untouched
         /\ frc' = IF fcall.fn # "secrandom" /\ ~Available(fcall.fn)
                   THEN SECRANDOM_UNSUPPORTED
                   ELSE IF fcall.buf = "NULL" THEN SECRANDOM_FAILURE
                   ELSE SECRANDOM_SUCCESS
         /\ c_errno' = IF frc' = SECRANDOM_FAILURE THEN "EINVAL"
                       ELSE c_errno]_allvars

\* secrandom_urandom_ex(buf, 0, &cache) returned success while a descriptor
\* is cached
C18_Witness ==
    /\ fpc = "done"
    /\ fcall = [fn |-> "urandom", buf |-> "buf", len |-> 0, cached |-> TRUE,
                sess |-> 1]
    /\ frc = SECRANDOM_SUCCESS
    /\ prim = NoPrim
    /\ cache[1] >= 0
    /\ ofds = {cache[1]}

\* the primitive of a backend
PrimOf(b) ==
    CASE b = "ossl" -> "RAND_bytes"
      [] b = "arc4random" -> "arc4random_buf"
      [] b = "getentropy" -> "getentropy"
      [] b = "urandom" -> "read"

\* backend b is about to call its primitive
Producing(b) ==
    /\ Running = b
    /\ fpc # "urandom"
    /\ Available(b)
    /\ fcall.buf = "buf"
    /\ fcall.len > 0

ReadFailed ==
    /\ fpc = "urandom_read"
    /\ prim'.name = "read"
    /\ prim'.got <= 0
    /\ ~(prim'.got < 0 /\ c_errno' = "EINTR")

(***************************************************************************)
(* C21: in secrandom_urandom_ex, when read(2) returns end of stream or an  *)
(* error other than EINTR, the descriptor in use is closed, the cache is   *)
(* set to -1 and the call returns Failure (errno EIO for end of stream);   *)
(* no cache ever holds a descriptor that is closed, so the next fill opens *)
(* a fresh one.                                                            *)
(***************************************************************************)
C21_ReadFailureInvalidates ==
    [][/\ ReadFailed =>
            /\ lfd \notin ofds'
            /\ fcall.cached => cache'[fcall.sess] = -1
            /\ Returns(SECRANDOM_FAILURE)
            /\ prim'.got = 0 => c_errno' = "EIO"
       /\ \A s \in DOMAIN cache : cache'[s] >= 0 => cache'[s] \in ofds'
      ]_allvars

\* secrandom_urandom_ex(buf, len, &cache) has hit end of stream
C21_Witness ==
    /\ fpc = "done"
    /\ fcall.fn = "urandom"
    /\ fcall.cached
    /\ fcall.len > 0
    /\ prim = Prim("read", left, 0)
    /\ frc = SECRANDOM_FAILURE
    /\ c_errno = "EIO"
    /\ cache[fcall.sess] = -1
    /\ lfd >= 0
    /\ lfd \notin ofds

\* secrandom_urandom_ex is at its start with something to produce
UrandomStart == fpc = "urandom" /\ fcall.buf = "buf" /\ fcall.len > 0

C24_PathOverride ==
    ddev # "" => ddev = IF dpath = Nil THEN DEFAULT_DEV ELSE dpath[1]

(***************************************************************************)
(* C25: in every state reached after close() the session has capacity 0,   *)
(* valid_len 0, no storage and no open descriptor (fd = -1).               *)
(* close_lua closes the descriptor and drops the reference to the storage; *)
(* u->cap and u->len keep the values of the last read.                     *)
(***************************************************************************)
C25_ClosedIsEmpty ==
    fd = -1 => cap = 0 /\ len = 0 /\ ref_buf = LUA_NOREF

\* the places secrandom_ossl has in the calls made so far
OsslRuns == {i \in 1..Len(tried) : tried[i].b = "ossl"}

(***************************************************************************)
(* C26: within one secrandom() call OpenSSL is attempted at most once:     *)
(* first when it is mandatory, or last, after arc4random, getentropy and   *)
(* /dev/urandom have all not succeeded, when it is not; a mandatory        *)
(* attempt that failed is not repeated at the end of the chain.            *)
(***************************************************************************)
C26_OpenSSLOnce ==
    fcall.fn = "secrandom" =>
        /\ Cardinality(OsslRuns) + (IF fpc = "ossl" THEN 1 ELSE 0) <= 1
        /\ fcfg.mandatory =>
             /\ OsslRuns \subseteq {1}
             /\ fpc = "ossl" => tried = <<>>
             /\ fpc \in {"exit", "done"} /\ Len(tried) > 0 /\ frc # SECRANDOM_SUCCESS
                  => tried[Len(tried)].b = "urandom"
        /\ ~fcfg.mandatory =>
             /\ OsslRuns \subseteq {4}
             /\ fpc = "ossl" \/ OsslRuns # {} =>
                  /\ Len(tried) >= 3
                  /\ tried[1].b = "arc4random"
                  /\ tried[2].b = "getentropy"
                  /\ tried[3].b = "urandom"
                  /\ \A i \in 1..3 : tried[i].rc # SECRANDOM_SUCCESS

\* OpenSSL is mandatory and fails, and so does every backend after it: the
\* call ends with /dev/urandom
C26_Witness ==
    /\ fcall.fn = "secrandom"
    /\ fcfg.mandatory
    /\ fcfg.ossl
    /\ fpc = "done"
    /\ frc = SECRANDOM_FAILURE
    /\ c_errno = "EIO"
    /\ Len(tried) = 4
    /\ tried[1].b = "ossl" /\ tried[1].rc = SECRANDOM_FAILURE
    /\ tried[4].b = "urandom" /\ tried[4].rc = SECRANDOM_FAILURE

\* the 0-based indices of the trailing bytes that make no whole element of
\* the width of the last call
Trailing == (MaxElems * Width(last.op))..(len - 1)

(***************************************************************************)
(* C27: handle ownership.  Each session holds at most one open descriptor  *)
(* and no two sessions hold the same one; when a call has returned, every  *)
(* descriptor the device backend opened is closed or is the one in the     *)
(* cache of the session the call was made for (after success, a failed     *)
(* open, a read error or end of stream, with or without a cache); and a    *)
(* step made for one session changes no other session's descriptor.        *)
(***************************************************************************)
Cached == {cache[s] : s \in DOMAIN cache} \ {-1}

\* a call has been made and has not returned
InCall == fpc \notin {"idle", "done"}

Owned ==
    /\ \A s \in DOMAIN cache : cache[s] >= 0 => cache[s] \in ofds
    /\ \A s, t \in DOMAIN cache : s # t /\ cache[s] >= 0 => cache[s] # cache[t]
    /\ ofds \subseteq Cached \cup {lfd}
    /\ ~InCall => ofds = Cached

OwnStep ==
    LET changed == {s \in DOMAIN cache : cache'[s] # cache[s]}
    IN /\ Cardinality(changed) <= 1
       /\ InCall => /\ changed \subseteq
                            (IF fcall.cached THEN {fcall.sess} ELSE {})
                     /\ ofds \ ofds' \subseteq {lfd}
       /\ ~InCall => ofds \ ofds' \subseteq {cache[s] : s \in changed}

GaveData ==
    /\ prim' # prim
    /\ prim'.name \in {"read", "getentropy", "RAND_bytes"}
    /\ prim'.got > 0

Decreases == InCall /\ GaveData => left' < left

TriedOnce ==
    \A i, j \in 1..Len(tried) : tried[i].b = tried[j].b => i = j

C30_CallReturns ==
    /\ InCall ~> fpc = "done"
    /\ [][Decreases]_allvars
    /\ []TriedOnce

\* secrandom() returned success for more than one chunk after getentropy
\* failed and a read(2) of the device was interrupted and made again
C30_Witness ==
    /\ fpc = "done"
    /\ fcall.fn = "secrandom"
    /\ fcall.len = MaxFill
    /\ frc = SECRANDOM_SUCCESS
    /\ c_errno = "EINTR"
    /\ \E i \in 1..Len(tried) :
          tried[i].b = "getentropy" /\ tried[i].rc = SECRANDOM_FAILURE
    /\ left = 0

(***************************************************************************)
(* C28: when valid_len is not a multiple of the width w, the trailing      *)
(* valid_len mod w bytes are in no typed result: getNu() with no count     *)
(* returns exactly valid_len div w elements (none, with the out-of-range   *)
(* error, when valid_len < w), and a request for element                   *)
(* (valid_len div w) + 1 fails.                                            *)
(***************************************************************************)
C28_NoPartialElement ==
    (last.op \in GetuOps /\ fd # -1 /\ len % Width(last.op) # 0) =>
        /\ last.rd \cap Trailing = {}
        /\ last.type = "table" => Off0 + Len(last.val) <= MaxElems
        /\ last.count = Nil /\ last.offset = Nil =>
             IF MaxElems > 0
             THEN last.type = "table" /\ Len(last.val) = MaxElems
             ELSE last.type = "nil" /\ last.err.msg = "out of range"
        /\ Off0 = MaxElems =>
             /\ last.nres = 2
             /\ last.type = "nil"
             /\ last.val = <<>>
             /\ last.err.msg = "out of range"

\* get16u(nil, 2) on three valid bytes: element 2 would need the byte after
\* the last one
C28_Witness ==
    /\ last.op = "os.urandom.get16u"
    /\ fd # -1
    /\ len = 3
    /\ last.count = Nil
    /\ last.offset = Arg(2)
    /\ last.type = "nil"
    /\ last.err.msg = "out of range"

(***************************************************************************)
(* C29: valid_len <= capacity in every reachable state of a session, after *)
(* any sequence of successful, short, failed and rejected reads, accessor  *)
(* calls and closes.                                                       *)
(***************************************************************************)
C29_LenWithinCap == len <= cap /\ cap = Len(buf)

\* a short read into a buffer that an earlier read allocated
C29_Witness ==
    /\ last.op = "os.urandom.read"
    /\ last.nres = 1
    /\ 0 < len
    /\ len < cap
    /\ \E i \in 1..cap : buf[i] # UNINIT /\ i > len

(***************************************************************************)
(* C20, for the session's read path: an interrupted (EINTR) device read is *)
(* retried inside the call and never comes back to the caller as an error. *)
(* read_lua returns whatever errno read(2) left, EINTR included.           *)
(***************************************************************************)
C20_EintrNeverSurfaced ==
    last.op = "os.urandom.read" => last.err.errno # "EINTR"
(***************************************************************************)
(* C31: when secrandom() returns success, all len bytes of buf were        *)
(* written by the backend that returned success: a backend that failed     *)
(* after it wrote some chunks leaves no byte in the result, as every       *)
(* backend after it starts at offset 0 and writes the whole of buf.        *)
(***************************************************************************)
C31_OneBackendWroteAll ==
    (/\ fpc = "done"
     /\ fcall.fn = "secrandom"
     /\ frc = SECRANDOM_SUCCESS
     /\ tried # <<>>)
    => LET w == tried[Len(tried)]
       IN /\ w.rc = SECRANDOM_SUCCESS
          /\ Len(out) = fcall.len
          /\ \A k \in 1..Len(out) : out[k] = w.b
          /\ \A i \in 1..(Len(tried) - 1) : tried[i].rc # SECRANDOM_SUCCESS

\* getentropy failed after it wrote its first chunk, and /dev/urandom then
\* filled buf and secrandom() returned success
C31_Witness ==
    /\ fpc = "done"
    /\ fcall.fn = "secrandom"
    /\ frc = SECRANDOM_SUCCESS
    /\ \E i \in 1..Len(tried) :
          /\ tried[i].b = "getentropy"
          /\ tried[i].rc = SECRANDOM_FAILURE
          /\ tried[i].at = GETENTROPY_MAX
    /\ tried[Len(tried)].b = "urandom"
    /\ \A k \in 1..Len(out) : out[k] = "urandom"

(***************************************************************************)
(* C32: where the device is read at every call, getNu(count) of width w    *)
(* obtains exactly count * w bytes, the product not wrapping in size_t, so *)
(* each of the count elements it returns is read inside the buffer that    *)
(* the call filled.                                                        *)
(* getu_lua does not test the product: with count above SIZE_MAX / 4,      *)
(* get32u reads 4 * count mod 2^N bytes and then count elements.           *)
(***************************************************************************)
C32_ElementsInsideBuffer ==
    (/\ dlast.op \in GetuOps
     /\ dlast.count # Nil
     /\ dlast.devread
     /\ dlast.type \in {"table", "signal"})
    => /\ dlast.type = "table"
       /\ dlen = dlast.count[1] * Width(dlast.op)
       /\ Len(dlast.val) = dlast.count[1]
       /\ \A i \in 1..Len(dlast.val) : dlast.val[i] # OUT_OF_BUFFER

(***************************************************************************)
(* C33: over any calls of close() and then the collection of the session,  *)
(* the descriptor is closed exactly once when open(2) gave one and never   *)
(* when it failed: close() sets u->fd to -1, so neither another close()    *)
(* nor the finalizer closes it again.                                      *)
(***************************************************************************)
C33_ClosedExactlyOnce ==
    /\ nclose <= 1
    /\ ~opened => nclose = 0
    /\ opened /\ alive => (nclose = 1 <=> fd = -1)
    /\ opened /\ ~alive => nclose = 1

\* the session was closed by close() and then collected: the finalizer
\* found u->fd = -1 and closed nothing
C33_Witness ==
    /\ opened
    /\ ~alive
    /\ fd = -1
    /\ last.op = "os.urandom.__gc"
    /\ ~last.closed
    /\ nclose = 1

(***************************************************************************)
(* C34: once close() has released the reference to the buffer, no later    *)
(* call reads from or writes into that storage, though u->buf, u->cap and  *)
(* u->len stay as they were: the accessors return before they touch the    *)
(* buffer, and read stores nothing through the stale pointer.              *)
(***************************************************************************)
Released == fd = -1 /\ ref_buf = LUA_NOREF /\ cap > 0

C34_ReleasedStorageUntouched ==
    [][Released => /\ buf' = buf
                   /\ last'.rd = {}
                   /\ ref_buf' = LUA_NOREF]_allvars

\* on a closed session that keeps cap and len, read was called with the
\* size of the released buffer, the case in which it passes u->buf to read(2)
C34_Witness ==
    /\ Released
    /\ len > 0
    /\ last.op = "os.urandom.read"
    /\ last.count = Arg(cap)
    /\ last.err.errno = "EBADF"
    /\ \A i \in 1..len : buf[i] = recent[i]

====
